---- MODULE Spec2Model ----
(***************************************************************************)
(* vidirr: the numbered listing (editor.rs), the line parser (editor.rs),  *)
(* the rename/copy resolution engine (ops.rs) over a POSIX file tree, and  *)
(* the loop of main (main.rs) that feeds the edited lines to the engine.   *)
(*                                                                         *)
(* A path is the sequence of its characters, so that string equality,      *)
(* starts_with, slicing and push behave as they do on a Rust String.       *)
(* A file tree is a function from the paths that exist to their node:      *)
(* [kind |-> "file" | "dir", id |-> the identity of the content].          *)
(***************************************************************************)
EXTENDS Naturals, Sequences, FiniteSets, TLC

VARIABLES
    sources,    \* main.rs: target.all(), the ordered paths that are listed
    listing,    \* editor.rs: the lines write_with_ids wrote to its output
    parsed,     \* editor.rs: the results of parse_line on the lines read so far
    items,      \* ops.rs: Operator.items, identifier -> pending path
    dones,      \* ops.rs: Operator.dones, identifier -> resolved path
    fs,         \* the file tree that std::fs and std::path::Path look at
    nedits,     \* the number of apply_changes calls made so far
    not_found,  \* the numbers whose call has failed with NotFound so far
    pre,        \* items, dones and fs as they were when the last call began
    last,       \* the last call: its arguments, its locals, its calls, its result
    pc,         \* main.rs: where main is ("main", "panicked" or "returned")
    reported,   \* main.rs: the errors printed by line 54 so far
    placed      \* identifier -> what its last applied edit left at its target

vars == <<sources, listing, parsed, items, dones, fs, nedits, not_found, pre, last,
          pc, reported, placed>>

----------------------------------------------------------------------------
(* Bounds *)

\* apply_changes calls in one run
MaxEdits == 3

----------------------------------------------------------------------------
(* Strings *)

HasPrefix(s, p) == Len(p) <= Len(s) /\ SubSeq(s, 1, Len(p)) = p

\* &name[k..] of a String
Drop(s, k) == SubSeq(s, k + 1, Len(s))

DigitChar(d) == <<"0", "1", "2", "3", "4", "5", "6", "7", "8", "9">>[d + 1]

RECURSIVE to_string(_)
\* usize::to_string: the decimal digits, most significant first
to_string(n) == IF n < 10 THEN <<DigitChar(n)>>
                ELSE to_string(n \div 10) \o <<DigitChar(n % 10)>>

\* A finite map without one key (HashMap::remove) and with one binding
\* (HashMap::insert)
\* A slip in remove: the key stays
MapRemove_Kept(m, k) == m
MapRemove(m, k) == [x \in DOMAIN m \ {k} |-> m[x]]
\* A slip in insert: the map is replaced by the one binding
MapInsert_Alone(m, k, v) == [x \in {k} |-> v]
MapInsert(m, k, v) == [x \in DOMAIN m \cup {k} |-> IF x = k THEN v ELSE m[x]]

----------------------------------------------------------------------------
(* The file tree: std::path::Path and std::fs on a POSIX system *)

SlashAt(p) == {i \in 1..Len(p) : p[i] = "/"}

\* The proper ancestors of a relative path: what precedes each separator
Ancestors(p) == {SubSeq(p, 1, i - 1) : i \in SlashAt(p)}

\* q lies underneath directory d
IsUnder(q, d) == Len(q) > Len(d) + 1 /\ HasPrefix(q, d \o <<"/">>)

Max(S) == CHOOSE x \in S : \A y \in S : y <= x

\* Path::parent: "a/b" -> "a", "a" -> "" (the working directory)
Parent(p) == IF SlashAt(p) = {} THEN <<>> ELSE SubSeq(p, 1, Max(SlashAt(p)) - 1)

\* Path::try_exists: Ok(true), Ok(false) for ENOENT, and Err for any other
\* failure of stat; on a tree of files and directories that is ENOTDIR, a
\* regular file among the ancestors.
try_exists(f, p) ==
    IF p \in DOMAIN f THEN "true"
    ELSE IF \E a \in Ancestors(p) : a \in DOMAIN f /\ f[a].kind = "file" THEN "err"
    ELSE "false"

\* Path::exists: false on every failure of stat
exists(f, p) == try_exists(f, p) = "true"

\* Path::is_dir: false on every failure of stat
is_dir(f, p) == p \in DOMAIN f /\ f[p].kind = "dir"

\* The directory a new entry p would be made in is there: the working
\* directory, or an existing directory
ParentIsDir(f, p) == Parent(p) = <<>> \/ is_dir(f, Parent(p))

\* The path of q after its ancestor-or-self `from` became `to`
Rebase(q, from, to) == to \o Drop(q, Len(from))

\* The subtree at `from` moved to `to`, whatever was at `to` replaced
Moved(f, from, to) ==
    LET gone == {q \in DOMAIN f : q = from \/ IsUnder(q, from)}
        kept == (DOMAIN f \ gone) \ {to}
        new  == {Rebase(q, from, to) : q \in gone}
    IN  [q \in kept \cup new |->
            IF q \in new THEN f[from \o Drop(q, Len(to))] ELSE f[q]]

\* rename(2). ok is whether it succeeded, fs the tree afterwards.
fs_rename(f, from, to) ==
    IF ~exists(f, from) \/ to = <<>> \/ ~ParentIsDir(f, to) THEN [ok |-> FALSE, fs |-> f]
    ELSE IF from = to THEN [ok |-> TRUE, fs |-> f]
    ELSE IF f[from].kind = "dir" /\ IsUnder(to, from) THEN [ok |-> FALSE, fs |-> f]
    ELSE IF to \in DOMAIN f
            /\ ~(/\ f[to].kind = f[from].kind
                 /\ \A q \in DOMAIN f : ~IsUnder(q, to))
         THEN [ok |-> FALSE, fs |-> f]
    ELSE [ok |-> TRUE, fs |-> Moved(f, from, to)]

\* std::fs::copy: the source must be a regular file; the target is created
\* or truncated and gets the source's content
fs_copy(f, from, to) ==
    IF ~exists(f, from) \/ f[from].kind # "file" THEN [ok |-> FALSE, fs |-> f]
    ELSE IF to = <<>> \/ ~ParentIsDir(f, to) \/ is_dir(f, to) THEN [ok |-> FALSE, fs |-> f]
    ELSE [ok |-> TRUE,
          fs |-> [q \in DOMAIN f \cup {to} |->
                     IF q = to
                     THEN [kind |-> "file", id |-> IF from = to THEN 0 ELSE f[from].id]
                     ELSE f[q]]]

\* std::fs::create_dir_all: Ok for "" and for an existing directory, Err when
\* a regular file is in the way (nothing is made then), and otherwise every
\* missing directory down to p is made. A directory made this way has id 0.
create_dir_all(f, p) ==
    LET chain == Ancestors(p) \cup {p}
    IN  IF p = <<>> THEN [ok |-> TRUE, fs |-> f]
        ELSE IF \E a \in chain : a \in DOMAIN f /\ f[a].kind = "file"
        THEN [ok |-> FALSE, fs |-> f]
        ELSE [ok |-> TRUE,
              fs |-> [q \in DOMAIN f \cup chain |->
                         IF q \in DOMAIN f THEN f[q] ELSE [kind |-> "dir", id |-> 0]]]

----------------------------------------------------------------------------
(* editor.rs: the numbered listing and its parser *)

\* The digits str::parse::<usize> accepts
IsDigit(c) == c \in {"0", "1", "2", "3", "4", "5", "6", "7", "8", "9"}

\* The character U+00B2, superscript two: of general category No, two bytes
\* long in UTF-8. It stands for the numeric characters that are no ASCII
\* digits.
SuperscriptTwo == "U+00B2"

\* char::is_numeric: the general categories Nd, Nl and No
IsNumeric(c) == IsDigit(c) \/ c = SuperscriptTwo

\* char::len_utf8, on the characters the model writes
Utf8Len(c) == IF c = SuperscriptTwo THEN 2 ELSE 1

RECURSIVE ByteLen(_)
\* str::len: the length in bytes
ByteLen(s) == IF s = <<>> THEN 0 ELSE Utf8Len(s[1]) + ByteLen(Tail(s))

\* str::is_char_boundary: byte offset b is where a character of s starts,
\* or the end of s
IsCharBoundary(s, b) == \E i \in 0..Len(s) : ByteLen(SubSeq(s, 1, i)) = b

\* The number of characters of s before the character boundary b
CharsBefore(s, b) == CHOOSE i \in 0..Len(s) : ByteLen(SubSeq(s, 1, i)) = b

\* &s[..b] and &s[b..] for a character boundary b
SliceTo(s, b) == SubSeq(s, 1, CharsBefore(s, b))
SliceFrom(s, b) == SubSeq(s, CharsBefore(s, b) + 1, Len(s))

\* char::is_whitespace, on the characters the model writes
IsSpace(c) == c \in {" ", "\t"}

DigitVal(c) == CHOOSE d \in 0..9 : DigitChar(d) = c

RECURSIVE parse_usize(_)
\* str::parse::<usize> of a string of digits whose value fits
parse_usize(ds) == IF ds = <<>> THEN 0
                   ELSE 10 * parse_usize(SubSeq(ds, 1, Len(ds) - 1)) + DigitVal(ds[Len(ds)])

\* usize::MAX of a 64-bit target, in decimal
UsizeMaxDigits ==
    <<"1", "8", "4", "4", "6", "7", "4", "4", "0", "7", "3", "7", "0", "9", "5", "5",
      "1", "6", "1", "5">>

RECURSIVE StripZeros(_)
StripZeros(ds) == IF ds # <<>> /\ ds[1] = "0" THEN StripZeros(Tail(ds)) ELSE ds

RECURSIVE DigitsGreater(_, _)
\* Of two strings of digits of the same length, the first is the greater number
DigitsGreater(a, b) ==
    IF a = <<>> THEN FALSE
    ELSE IF a[1] # b[1] THEN DigitVal(a[1]) > DigitVal(b[1])
    ELSE DigitsGreater(Tail(a), Tail(b))

\* The value of a string of digits is greater than usize::MAX
Overflows(ds) ==
    LET sig == StripZeros(ds)
    IN  \/ Len(sig) > Len(UsizeMaxDigits)
        \/ Len(sig) = Len(UsizeMaxDigits) /\ DigitsGreater(sig, UsizeMaxDigits)

RECURSIVE DigitPrefix(_)
\* The digits a string starts with
DigitPrefix(s) == IF s # <<>> /\ IsDigit(s[1]) THEN <<s[1]>> \o DigitPrefix(Tail(s)) ELSE <<>>

\* The ParseIntError of str::parse::<usize>, "" when there is none: the
\* characters are folded from the left, so an overflow of the digits before
\* it comes before an invalid character
ParseIntError(s) ==
    IF s = <<>> THEN "cannot parse integer from empty string"
    ELSE IF Overflows(DigitPrefix(s)) THEN "number too large to fit in target type"
    ELSE IF DigitPrefix(s) # s THEN "invalid digit found in string"
    ELSE ""

RECURSIVE Spaces(_)
Spaces(n) == IF n = 0 THEN <<>> ELSE <<" ">> \o Spaces(n - 1)

\* format!("{:<p$}", n): n left-justified in a field of at least p characters
PadLeftJustified(n, p) ==
    LET s == to_string(n)
    IN  IF Len(s) >= p THEN s ELSE s \o Spaces(p - Len(s))

\* write_with_ids: the map it returns and the lines it writes
write_with_ids(srcs) ==
    LET padding == Len(to_string(Len(srcs) + 1))
    IN  [items |-> [i \in 1..Len(srcs) |-> srcs[i]],
         lines |-> [i \in 1..Len(srcs) |->
                       PadLeftJustified(i, padding) \o <<" ">> \o srcs[i]]]

RECURSIVE trim_start(_)
trim_start(s) == IF s # <<>> /\ IsSpace(s[1]) THEN trim_start(Tail(s)) ELSE s

\* parse_line, lines 45-48 and 50-53: the ParsedLine, unless the ? on
\* parse::<usize> returns its error
ParsedOrErr(digits, filename) ==
    IF ParseIntError(digits) # "" THEN [kind |-> "err", msg |-> ParseIntError(digits)]
    ELSE [kind |-> "line", num |-> parse_usize(digits), filename |-> filename]

\* parse_line: [kind |-> "none"] for Ok(None), [kind |-> "err"] for Err,
\* [kind |-> "line", num, filename] for Ok(Some(ParsedLine)), and
\* [kind |-> "panic"] when a slice is taken off a character boundary.
\* position counts characters, and the slices of lines 36, 46 and 47 take
\* its result as a byte offset.
parse_line(input) ==
    LET trimmed == trim_start(input)
        nonnumeric == {i \in 1..Len(trimmed) : ~IsNumeric(trimmed[i])}
        \* the characters before the first one that is not numeric
        idx == (CHOOSE i \in nonnumeric : \A j \in nonnumeric : i <= j) - 1
        remain == SliceFrom(trimmed, idx)
        filename_idx == IF remain # <<>> /\ remain[1] = " " THEN idx + 1 ELSE idx
    IN  IF trimmed = <<>> THEN [kind |-> "none"]
        ELSE IF nonnumeric = {} THEN ParsedOrErr(trimmed, <<>>)
        ELSE IF idx = 0 THEN [kind |-> "err", msg |-> "no number found"]
        ELSE IF ~IsCharBoundary(trimmed, idx) THEN [kind |-> "panic"]
        ELSE ParsedOrErr(SliceTo(trimmed, idx), SliceFrom(trimmed, filename_idx))

----------------------------------------------------------------------------
(* ops.rs: the Operator *)

\* Operator::new: the pending map is the one given, the resolved map is empty
OperatorNew(its) == [items |-> its, dones |-> <<>>]

\* A slip in update_items: the pending paths are left as they are
update_items_Forgotten(its, from, to) == its

\* Operator::update_items: every pending path equal to `from` becomes `to`
update_items(its, from, to) ==
    [k \in DOMAIN its |-> IF its[k] = from THEN to ELSE its[k]]

\* A slip in update_dir: the pending paths are left as they are
update_dir_Forgotten(its, from, to) == its

\* Operator::update_dir: every pending path that starts with `from` gets that
\* prefix replaced by `to`
update_dir(its, from, to) ==
    [k \in DOMAIN its |->
        IF HasPrefix(its[k], from) THEN to \o Drop(its[k], Len(from)) ELSE its[k]]

RECURSIVE tmp_name_loop(_, _, _)
\* get_unique_tmp_name, the while loop: as long as new_name exists, the
\* digits of i are pushed onto it and i is incremented
tmp_name_loop(f, new_name, i) ==
    IF exists(f, new_name) THEN tmp_name_loop(f, new_name \o to_string(i), i + 1)
    ELSE new_name

\* get_unique_tmp_name. It is called for a name that exists, so the
\* candidates lie in an existing directory and try_exists never fails on
\* them: the unwrap of line 172 cannot panic.
get_unique_tmp_name(f, name) == tmp_name_loop(f, name \o <<"~">>, 1)

\* The results of apply_changes
ResOk == [kind |-> "Ok"]
\* A slip in line 82: the message names the number counted from zero
ErrUnknown_ZeroBased(num) == [kind |-> "unknown item number", num |-> num - 1]
ErrUnknown(num) == [kind |-> "unknown item number", num |-> num]
\* A slip in line 101: the error does not carry the path of the source
ErrNotFound_NoPath(src) == [kind |-> "NotFound", path |-> <<>>]
ErrNotFound(src) == [kind |-> "NotFound", path |-> src]
ErrFailRename(from, to) == [kind |-> "FailRename", from |-> from, to |-> to]
ErrFailCopy(from, to) == [kind |-> "FailCopy", from |-> from, to |-> to]
ErrIo == [kind |-> "io::Error"]

\* The calls apply_changes makes on the file tree
CallRename(from, to) == [op |-> "rename", from |-> from, to |-> to]
CallCopy(from, to) == [op |-> "copy", from |-> from, to |-> to]
CallCreateDirAll(p) == [op |-> "create_dir_all", from |-> <<>>, to |-> p]

\* apply_changes, line 81: the number is in neither map
IsUnknown(its, dns, num) == num \notin DOMAIN its /\ num \notin DOMAIN dns

\* A slip in line 83: the comparison with the pending path is left out
IsMoveOrCopy_Always(its, dns, num, new_name) == TRUE

\* apply_changes, line 83: a move or a copy is to be handled
IsMoveOrCopy(its, dns, num, new_name) == num \in DOMAIN dns \/ its[num] # new_name

\* A slip in line 87: an empty target is not skipped
IsEmptyName_Never(new_name) == FALSE

\* apply_changes, line 87: the target filename is empty
IsEmptyName(new_name) == new_name = <<>>

\* A slip in line 100: the number whose source is missing stays pending
EvictMissing_Forgotten(its, num) == its

\* apply_changes, line 100: the number whose source is missing leaves the
\* pending map
EvictMissing(its, num) == MapRemove(its, num)

\* apply_changes, lines 91-95: the source of the move or copy
SourceOf(its, dns, num) == IF num \in DOMAIN dns THEN dns[num] ELSE its[num]

\* What a call leaves behind: the maps, the tree, the calls made, the result,
\* the locals src and tmp_name (empty when never set), and self.items as it
\* was when line 120 was reached (as it is at the end, when it never was)
Outcome(its, dns, f, calls, result, src, tmp, mid) ==
    [items |-> its, dones |-> dns, fs |-> f, calls |-> calls, result |-> result,
     src |-> src, tmp_name |-> tmp, items_mid |-> mid]

\* A slip in lines 144-145: the number leaves the pending map without being
\* recorded in the resolved map
MarkDone_NotRecorded(its, dns, f, calls, num, new_name, src, tmp, mid) ==
    Outcome(MapRemove(its, num), dns, f, calls, ResOk, src, tmp, mid)

\* apply_changes, lines 144-147
MarkDone(its, dns, f, calls, num, new_name, src, tmp, mid) ==
    Outcome(MapRemove(its, num), MapInsert(dns, num, new_name), f, calls, ResOk,
            src, tmp, mid)

\* A slip in lines 127-145: the number is marked resolved before the copy or
\* rename is tried, and stays so when it fails
MainOperation_MarkedFirst(its, dns, f, calls, num, new_name, src, tmp) ==
    LET is_copy == num \in DOMAIN dns
        call == IF is_copy THEN CallCopy(src, new_name) ELSE CallRename(src, new_name)
        r == IF is_copy THEN fs_copy(f, src, new_name) ELSE fs_rename(f, src, new_name)
        err == IF is_copy THEN ErrFailCopy(src, new_name) ELSE ErrFailRename(src, new_name)
        calls2 == Append(calls, call)
    IN  IF ~r.ok
        THEN Outcome(MapRemove(its, num), MapInsert(dns, num, new_name), f, calls2, err,
                     src, tmp, its)
        ELSE IF is_dir(r.fs, new_name)
        THEN MarkDone(update_dir(its, src, new_name), dns, r.fs, calls2, num, new_name,
                      src, tmp, its)
        ELSE MarkDone(its, dns, r.fs, calls2, num, new_name, src, tmp, its)

\* apply_changes, lines 127-136: the copy or rename, then the cascade
MainOperation(its, dns, f, calls, num, new_name, src, tmp) ==
    LET is_copy == num \in DOMAIN dns
        call == IF is_copy THEN CallCopy(src, new_name) ELSE CallRename(src, new_name)
        r == IF is_copy THEN fs_copy(f, src, new_name) ELSE fs_rename(f, src, new_name)
        err == IF is_copy THEN ErrFailCopy(src, new_name) ELSE ErrFailRename(src, new_name)
        calls2 == Append(calls, call)
    IN  IF ~r.ok THEN Outcome(its, dns, f, calls2, err, src, tmp, its)
        ELSE IF is_dir(r.fs, new_name)
        THEN MarkDone(update_dir(its, src, new_name), dns, r.fs, calls2, num, new_name,
                      src, tmp, its)
        ELSE MarkDone(its, dns, r.fs, calls2, num, new_name, src, tmp, its)

\* A slip in lines 120-125: the directory of new_name is never made
EnsureParent_NeverMade(its, dns, f, calls, num, new_name, src, tmp) ==
    MainOperation(its, dns, f, calls, num, new_name, src, tmp)

\* apply_changes, lines 120-125: the directory of new_name is made
EnsureParent(its, dns, f, calls, num, new_name, src, tmp) ==
    LET parent == Parent(new_name)
        r == create_dir_all(f, parent)
        calls2 == Append(calls, CallCreateDirAll(parent))
    IN  IF exists(f, parent) THEN MainOperation(its, dns, f, calls, num, new_name, src, tmp)
        ELSE IF ~r.ok THEN Outcome(its, dns, f, calls2, ErrIo, src, tmp, its)
        ELSE MainOperation(its, dns, r.fs, calls2, num, new_name, src, tmp)

\* A slip in lines 109-118: what is at new_name is left where it is
Displace_Skipped(its, dns, f, num, new_name, src) ==
    EnsureParent(its, dns, f, <<>>, num, new_name, src, <<>>)

\* apply_changes, lines 109-118: what is at new_name is moved out of the way
Displace(its, dns, f, num, new_name, src) ==
    LET tmp_name == get_unique_tmp_name(f, new_name)
        r == fs_rename(f, new_name, tmp_name)
        calls == <<CallRename(new_name, tmp_name)>>
    IN  IF try_exists(f, new_name) # "true"
        THEN EnsureParent(its, dns, f, <<>>, num, new_name, src, <<>>)
        ELSE IF ~r.ok
        THEN Outcome(its, dns, f, calls, ErrFailRename(new_name, tmp_name), src, tmp_name, its)
        ELSE EnsureParent(update_items(its, new_name, tmp_name), dns, r.fs, calls,
                          num, new_name, src, tmp_name)

\* Operator::apply_changes on ParsedLine {num, filename: new_name}, with the
\* file tree f behind ops and std::fs
apply_changes(its, dns, f, num, new_name) ==
    IF IsUnknown(its, dns, num)
    THEN Outcome(its, dns, f, <<>>, ErrUnknown(num), <<>>, <<>>, its)
    ELSE IF IsMoveOrCopy(its, dns, num, new_name)
    THEN IF IsEmptyName(new_name)
         THEN Outcome(its, dns, f, <<>>, ResOk, <<>>, <<>>, its)
         ELSE LET src == SourceOf(its, dns, num)
                  found == try_exists(f, src)
              IN  IF found = "false"
                  THEN Outcome(EvictMissing(its, num), dns, f, <<>>, ErrNotFound(src),
                               src, <<>>, EvictMissing(its, num))
                  ELSE IF found = "err"
                  THEN Outcome(its, dns, f, <<>>, ErrIo, src, <<>>, its)
                  ELSE Displace(its, dns, f, num, new_name, src)
    ELSE MarkDone(its, dns, f, <<>>, num, new_name, <<>>, <<>>, its)

\* The call reached lines 144-145: it succeeded otherwise than by skipping
\* an empty target
Applied(its, dns, num, new_name, result) ==
    /\ result.kind = "Ok"
    /\ ~(IsMoveOrCopy(its, dns, num, new_name) /\ IsEmptyName(new_name))

\* What the applied edits have left at their targets, after a call with
\* outcome r that began with the maps its and dns: an applied edit of num
\* binds num to the node that is at new_name when the call returns (to
\* nothing when nothing is there)
PlacedAfter(pl, its, dns, r, num, new_name) ==
    IF ~Applied(its, dns, num, new_name, r.result) THEN pl
    ELSE IF new_name \in DOMAIN r.fs THEN MapInsert(pl, num, r.fs[new_name])
    ELSE MapRemove(pl, num)

----------------------------------------------------------------------------
(* A run: the listing is written, the Operator is made from the map        *)
(* write_with_ids returned (main.rs, lines 30-42), and a caller hands it   *)
(* one ParsedLine after the other, going on after a failed call as the     *)
(* tests of ops.rs do.                                                     *)

\* The paths of the runs that are explored
PathA == <<"a">>
PathB == <<"b">>
PathD == <<"d">>
PathDF == <<"d", "/", "f">>
PathDX == <<"d", "x">>
PathAX == <<"a", "/", "x">>
PathEG == <<"e", "/", "g">>
PathM == <<"m">>
PathDXY == <<"d", "/", "x", "/", "y">>

\* The tree the runs start from: files a, b and dx, directory d holding
\* file f; e and m do not exist
InitTree ==
    [q \in {PathA, PathB, PathD, PathDF, PathDX} |->
        IF q = PathA THEN [kind |-> "file", id |-> 1]
        ELSE IF q = PathB THEN [kind |-> "file", id |-> 2]
        ELSE IF q = PathD THEN [kind |-> "dir", id |-> 3]
        ELSE IF q = PathDF THEN [kind |-> "file", id |-> 4]
        ELSE [kind |-> "file", id |-> 5]]

\* The listings the runs start from (parse_args takes any line of standard
\* input as a path, missing and empty ones too)
InitSources ==
    { <<PathA, PathB>>, <<PathD, PathDF>>, <<PathA, PathDF>>, <<PathD, PathDX>>,
      <<PathM>>, <<PathAX>>, <<PathB, <<>>>> }

\* The target paths the edited lines ask for
Targets == {<<>>, PathA, PathB, PathD, PathDF, PathEG, PathM, PathDXY}

\* No call yet
NoCall == [num |-> 0, filename |-> <<>>, is_copy |-> FALSE, src |-> <<>>,
           tmp_name |-> <<>>, items_mid |-> <<>>, calls |-> <<>>,
           result |-> [kind |-> "none"]]

\* No call has failed with NotFound: none for a number that was pending,
\* none for a number that was resolved
NoneNotFound == [pending |-> {}, resolved |-> {}]

NotWritten == [written |-> FALSE, items |-> <<>>, lines |-> <<>>]

Init ==
    /\ sources \in InitSources
    /\ listing = [written |-> TRUE, items |-> write_with_ids(sources).items,
                  lines |-> write_with_ids(sources).lines]
    /\ parsed = <<>>
    /\ items = OperatorNew(write_with_ids(sources).items).items
    /\ dones = OperatorNew(write_with_ids(sources).items).dones
    /\ fs = InitTree
    /\ nedits = 0
    /\ not_found = NoneNotFound
    /\ pre = [items |-> items, dones |-> dones, fs |-> fs, not_found |-> not_found]
    /\ last = NoCall
    /\ pc = "main"
    /\ reported = <<>>
    /\ placed = <<>>

\* One ParsedLine is handed to apply_changes (main.rs, line 50). The number
\* is any of the listing or the one after its last, the target any of
\* Targets.
ApplyChanges ==
    /\ nedits < MaxEdits
    /\ \E num \in 1..(Len(sources) + 1), new_name \in Targets :
        LET r == apply_changes(items, dones, fs, num, new_name)
        IN  /\ items' = r.items
            /\ dones' = r.dones
            /\ fs' = r.fs
            /\ pre' = [items |-> items, dones |-> dones, fs |-> fs,
                       not_found |-> not_found]
            /\ not_found' =
                  IF r.result.kind # "NotFound" THEN not_found
                  ELSE IF num \in DOMAIN dones
                  THEN [not_found EXCEPT !.resolved = @ \cup {num}]
                  ELSE [not_found EXCEPT !.pending = @ \cup {num}]
            /\ last' = [num |-> num, filename |-> new_name,
                        is_copy |-> num \in DOMAIN dones, src |-> r.src,
                        tmp_name |-> r.tmp_name, items_mid |-> r.items_mid,
                        calls |-> r.calls, result |-> r.result]
            /\ placed' = PlacedAfter(placed, items, dones, r, num, new_name)
    /\ nedits' = nedits + 1
    /\ UNCHANGED <<sources, listing, parsed, pc, reported>>

Next == ApplyChanges

Spec == Init /\ [][Next]_vars

----------------------------------------------------------------------------
(* The listing read back unedited: write_with_ids, then parse_line on each *)
(* line it wrote, in order (main.rs, lines 31 and 43-46).                  *)

\* Paths in a listing
MaxSources == 10

\* The paths listed: a plain name, and a name that starts with a space
EditorPaths == {PathA, <<" ", "1">>}

RECURSIVE ListsUpTo(_, _)
\* The sequences over S of length at most n
ListsUpTo(S, n) ==
    IF n = 0 THEN {<<>>}
    ELSE LET shorter == ListsUpTo(S, n - 1)
         IN  shorter \cup {Append(l, x) : l \in {k \in shorter : Len(k) = n - 1}, x \in S}

InitEditor ==
    /\ sources \in ListsUpTo(EditorPaths, MaxSources)
    /\ listing = NotWritten
    /\ parsed = <<>>
    /\ items = <<>>
    /\ dones = <<>>
    /\ fs = <<>>
    /\ nedits = 0
    /\ not_found = NoneNotFound
    /\ pre = [items |-> <<>>, dones |-> <<>>, fs |-> <<>>, not_found |-> NoneNotFound]
    /\ last = NoCall
    /\ pc = "main"
    /\ reported = <<>>
    /\ placed = <<>>

\* main.rs, lines 30-31
WriteWithIds ==
    /\ ~listing.written
    /\ listing' = [written |-> TRUE, items |-> write_with_ids(sources).items,
                   lines |-> write_with_ids(sources).lines]
    /\ UNCHANGED <<sources, parsed, items, dones, fs, nedits, not_found, pre, last,
                   pc, reported, placed>>

\* main.rs, lines 43-46: the next line of the file is parsed
ParseLine ==
    /\ listing.written
    /\ Len(parsed) < Len(listing.lines)
    /\ parsed' = Append(parsed, parse_line(listing.lines[Len(parsed) + 1]))
    /\ UNCHANGED <<sources, listing, items, dones, fs, nedits, not_found, pre, last,
                   pc, reported, placed>>

NextEditor == WriteWithIds \/ ParseLine

SpecEditor == InitEditor /\ [][NextEditor]_vars

----------------------------------------------------------------------------
(* parse_line on any line: the file holds one line, which is parsed        *)

\* Characters in the line
MaxLineLen == 4

\* The characters of the lines: a space, a tab, two digits, a letter and a
\* numeric character that is no ASCII digit
ParseChars == {" ", "\t", "0", "1", "x", SuperscriptTwo}

\* usize::MAX + 1 in decimal
TooLarge == SubSeq(UsizeMaxDigits, 1, Len(UsizeMaxDigits) - 1) \o <<"6">>

\* The lines parse_line is given: every line of at most MaxLineLen
\* characters, and two whose number does not fit usize
ParseInputs ==
    ListsUpTo(ParseChars, MaxLineLen) \cup {TooLarge, TooLarge \o <<" ", "x">>}

InitParse ==
    /\ sources = <<>>
    /\ listing \in [written : {TRUE}, items : {<<>>},
                    lines : {<<l>> : l \in ParseInputs}]
    /\ parsed = <<>>
    /\ items = <<>>
    /\ dones = <<>>
    /\ fs = <<>>
    /\ nedits = 0
    /\ not_found = NoneNotFound
    /\ pre = [items |-> <<>>, dones |-> <<>>, fs |-> <<>>, not_found |-> NoneNotFound]
    /\ last = NoCall
    /\ pc = "main"
    /\ reported = <<>>
    /\ placed = <<>>

NextParse == ParseLine

SpecParse == InitParse /\ [][NextParse]_vars

----------------------------------------------------------------------------
(* main: the file as the editor left it is read line by line, each line is *)
(* parsed and handed to apply_changes (main.rs, lines 40-64).              *)

\* Lines in the edited file
MaxLines == 3

\* The lines the editor may have left: an empty one, one without a number,
\* and edits for the numbers 1, 2 and 3
MainLines ==
    { <<>>, <<"x">>,
      <<"1", " ">> \o PathB, <<"1", " ">> \o PathM, <<"1", " ">> \o PathEG,
      <<"2", " ">> \o PathA, <<"2", " ">> \o PathD, <<"3", " ">> \o PathM }

InitMain ==
    /\ sources \in InitSources
    /\ listing \in [written : {TRUE}, items : {write_with_ids(sources).items},
                    lines : ListsUpTo(MainLines, MaxLines)]
    /\ parsed = <<>>
    /\ items = OperatorNew(write_with_ids(sources).items).items
    /\ dones = OperatorNew(write_with_ids(sources).items).dones
    /\ fs = InitTree
    /\ nedits = 0
    /\ not_found = NoneNotFound
    /\ pre = [items |-> items, dones |-> dones, fs |-> fs, not_found |-> not_found]
    /\ last = NoCall
    /\ pc = "main"
    /\ reported = <<>>
    /\ placed = <<>>

\* main.rs, line 53: err.downcast_ref::<ops::OpsError>() is Some
IsOpsError(result) == result.kind \in {"NotFound", "FailRename", "FailCopy"}

\* main.rs, lines 43-62, one turn of the loop: the next line is parsed
\* (a failure panics in expect, if parse_line has not itself), an empty one
\* is skipped, an edit is handed
\* to apply_changes; an OpsError is printed, any other error panics
MainLine ==
    /\ pc = "main"
    /\ Len(parsed) < Len(listing.lines)
    /\ LET parsed_line == parse_line(listing.lines[Len(parsed) + 1])
           r == apply_changes(items, dones, fs, parsed_line.num, parsed_line.filename)
       IN  /\ parsed' = Append(parsed, parsed_line)
           /\ IF parsed_line.kind \in {"err", "panic"}
              THEN /\ pc' = "panicked"
                   /\ UNCHANGED <<items, dones, fs, nedits, not_found, pre, last, reported,
                                  placed>>
              ELSE IF parsed_line.kind = "none"
              THEN UNCHANGED <<items, dones, fs, nedits, not_found, pre, last, pc, reported,
                               placed>>
              ELSE /\ items' = r.items
                   /\ dones' = r.dones
                   /\ fs' = r.fs
                   /\ nedits' = nedits + 1
                   /\ pre' = [items |-> items, dones |-> dones, fs |-> fs,
                              not_found |-> not_found]
                   /\ not_found' =
                         IF r.result.kind # "NotFound" THEN not_found
                         ELSE IF parsed_line.num \in DOMAIN dones
                         THEN [not_found EXCEPT !.resolved = @ \cup {parsed_line.num}]
                         ELSE [not_found EXCEPT !.pending = @ \cup {parsed_line.num}]
                   /\ last' = [num |-> parsed_line.num, filename |-> parsed_line.filename,
                               is_copy |-> parsed_line.num \in DOMAIN dones, src |-> r.src,
                               tmp_name |-> r.tmp_name, items_mid |-> r.items_mid,
                               calls |-> r.calls, result |-> r.result]
                   /\ placed' = PlacedAfter(placed, items, dones, r, parsed_line.num,
                                            parsed_line.filename)
                   /\ reported' = IF IsOpsError(r.result) THEN Append(reported, r.result)
                                  ELSE reported
                   /\ pc' = IF r.result.kind = "Ok" \/ IsOpsError(r.result) THEN "main"
                            ELSE "panicked"
    /\ UNCHANGED <<sources, listing>>

\* main.rs, lines 62-64: no line is left, main returns
MainReturn ==
    /\ pc = "main"
    /\ Len(parsed) = Len(listing.lines)
    /\ pc' = "returned"
    /\ UNCHANGED <<sources, listing, parsed, items, dones, fs, nedits, not_found, pre,
                   last, reported, placed>>

NextMain == MainLine \/ MainReturn

SpecMain == InitMain /\ [][NextMain]_vars

----------------------------------------------------------------------------
(* Swaps and cycles: plain files are listed, and the editor leaves every   *)
(* line with the path of another one, all around one cycle. main then      *)
(* reads the file.                                                         *)

PathC == <<"c">>
PathE == <<"e">>

\* The plain files that are there
CycleFiles == {PathA, PathB, PathC, PathE}

\* The tree of the cycles: every one of CycleFiles is a file of its own
CycleTree ==
    [q \in CycleFiles |->
        [kind |-> "file",
         id |-> CHOOSE n \in 1..4 : <<PathA, PathB, PathC, PathE>>[n] = q]]

RECURSIVE Iterate(_, _, _)
\* f applied k times to x
Iterate(f, k, x) == IF k = 0 THEN x ELSE f[Iterate(f, k - 1, x)]

\* The permutations of 1..n that are one cycle through all of 1..n
Cycles(n) ==
    { f \in [1..n -> 1..n] :
        /\ \A i, j \in 1..n : f[i] = f[j] => i = j
        /\ \A k \in 1..(n - 1) : Iterate(f, k, 1) # 1 }

\* The listings of two or more distinct files of CycleFiles
CycleSources ==
    { l \in ListsUpTo(CycleFiles, Cardinality(CycleFiles)) :
        /\ Len(l) >= 2
        /\ \A i, j \in 1..Len(l) : l[i] = l[j] => i = j }

InitCycle ==
    /\ sources \in CycleSources
    /\ \E f \in Cycles(Len(sources)) :
          listing = [written |-> TRUE, items |-> write_with_ids(sources).items,
                     lines |-> write_with_ids([i \in 1..Len(sources) |->
                                                  sources[f[i]]]).lines]
    /\ parsed = <<>>
    /\ items = OperatorNew(write_with_ids(sources).items).items
    /\ dones = OperatorNew(write_with_ids(sources).items).dones
    /\ fs = CycleTree
    /\ nedits = 0
    /\ not_found = NoneNotFound
    /\ pre = [items |-> items, dones |-> dones, fs |-> fs, not_found |-> not_found]
    /\ last = NoCall
    /\ pc = "main"
    /\ reported = <<>>
    /\ placed = <<>>

SpecCycle == InitCycle /\ [][NextMain]_vars

----------------------------------------------------------------------------
(* get_unique_tmp_name against any set of names that are already taken     *)

PathBT == <<"b", "~">>

\* The names that may be there when get_unique_tmp_name("b") is called
TmpCandidates ==
    { PathBT, PathBT \o <<"1">>, PathBT \o <<"2">>, PathBT \o <<"3">>,
      PathBT \o <<"1", "2">>, PathBT \o <<"1", "2", "3">>, PathA \o <<"~">> }

InitTmp ==
    /\ \E taken \in SUBSET TmpCandidates :
          fs = [q \in taken \cup {PathB} |-> [kind |-> "file", id |-> 1]]
    /\ sources = <<>>
    /\ listing = NotWritten
    /\ parsed = <<>>
    /\ items = <<>>
    /\ dones = <<>>
    /\ nedits = 0
    /\ not_found = NoneNotFound
    /\ pre = [items |-> <<>>, dones |-> <<>>, fs |-> <<>>, not_found |-> NoneNotFound]
    /\ last = NoCall
    /\ pc = "main"
    /\ reported = <<>>
    /\ placed = <<>>

\* ops.rs, line 111: let tmp_name = get_unique_tmp_name(&new_name)
GetUniqueTmpName ==
    /\ last.tmp_name = <<>>
    /\ last' = [last EXCEPT !.filename = PathB,
                            !.tmp_name = get_unique_tmp_name(fs, PathB)]
    /\ UNCHANGED <<sources, listing, parsed, items, dones, fs, nedits, not_found, pre,
                   pc, reported, placed>>

NextTmp == GetUniqueTmpName

SpecTmp == InitTmp /\ [][NextTmp]_vars

----------------------------------------------------------------------------
(* Properties of apply_changes, stated on the last call: `pre` is the      *)
(* state it began in, `last` its arguments, locals, calls and result, and  *)
(* items, dones and fs the state it left.                                  *)

Called == last.result.kind # "none"

\* The maps and the tree are as they were before the call
StateUnchanged == items = pre.items /\ dones = pre.dones /\ fs = pre.fs

\* Every entry of map m2 other than k is the entry of m1, and conversely
SameExcept(m1, m2, k) ==
    /\ DOMAIN m1 \ {k} = DOMAIN m2 \ {k}
    /\ \A x \in DOMAIN m1 \ {k} : m2[x] = m1[x]

\* C1: an edit whose number is in neither the pending nor the resolved map
\* fails with "unknown item number n" for that very n, whatever its target;
\* no rename, copy or directory creation is issued and both maps (and the
\* tree) are left exactly as they were.
C1_UnknownNumber ==
    (Called /\ last.num \notin DOMAIN pre.items /\ last.num \notin DOMAIN pre.dones)
    => /\ last.result = [kind |-> "unknown item number", num |-> last.num]
       /\ last.calls = <<>>
       /\ StateUnchanged

\* C1 happens: a call with a non-empty target for a number in neither map,
\* while another number is pending
C1_Witness ==
    /\ Called
    /\ last.num \notin DOMAIN pre.items \cup DOMAIN pre.dones
    /\ last.filename = PathB
    /\ pre.items # <<>>

\* C2 as claimed: every edit with an empty target succeeds, issues no call
\* and leaves the maps as they were.
C2_Original ==
    (Called /\ last.filename = <<>>)
    => last.result.kind = "Ok" /\ last.calls = <<>> /\ StateUnchanged

\* C2 as amended: an edit with an empty target whose number is resolved, or
\* pending with a pending path that is not itself empty, succeeds, issues no
\* call and leaves the maps and the tree as they were. (A number in neither
\* map fails; an empty target for an empty pending path is the unchanged
\* name and resolves the number.)
C2_EmptyTarget ==
    (/\ Called
     /\ last.filename = <<>>
     /\ \/ last.num \in DOMAIN pre.dones
        \/ last.num \in DOMAIN pre.items /\ pre.items[last.num] # <<>>)
    => last.result.kind = "Ok" /\ last.calls = <<>> /\ StateUnchanged

\* C2 happens: an empty target for a pending number whose file exists
C2_Witness ==
    /\ Called
    /\ last.filename = <<>>
    /\ last.num \in DOMAIN pre.items
    /\ pre.items[last.num] = PathA
    /\ exists(pre.fs, PathA)

\* C3: an edit for a pending, unresolved number whose target is that number's
\* current pending path issues no call, succeeds, removes the number from the
\* pending map and records number -> target in the resolved map; every other
\* pending and resolved entry, and the tree, is unchanged.
C3_SameName ==
    (/\ Called
     /\ last.num \in DOMAIN pre.items
     /\ last.num \notin DOMAIN pre.dones
     /\ last.filename = pre.items[last.num])
    => /\ last.calls = <<>>
       /\ last.result.kind = "Ok"
       /\ last.num \notin DOMAIN items
       /\ last.num \in DOMAIN dones
       /\ dones[last.num] = last.filename
       /\ SameExcept(pre.items, items, last.num)
       /\ SameExcept(pre.dones, dones, last.num)
       /\ fs = pre.fs

\* C3 happens: the unchanged name of an existing file, another number
\* pending beside it
C3_Witness ==
    /\ Called
    /\ last.num \in DOMAIN pre.items
    /\ last.filename = pre.items[last.num]
    /\ last.filename = PathA
    /\ items # <<>>
    /\ last.num \in DOMAIN dones

\* The first and the last call the last apply_changes issued
FirstCall == last.calls[1]
LastCall == last.calls[Len(last.calls)]

\* C4 as claimed: for a pending, unresolved number whose source exists and a
\* non-empty target, other than its pending path, that exists, the call
\* first renames what is at the target to a name that was unused, rewrites
\* every pending path equal to the target to that name, then renames the
\* source to the target: afterwards the source path is gone, the target holds
\* what was at the source, the temporary name holds what was at the target,
\* and the number is resolved to the target and no longer pending.
C4_SwapDisplacement ==
    (/\ Called
     /\ last.num \in DOMAIN pre.items
     /\ last.num \notin DOMAIN pre.dones
     /\ exists(pre.fs, pre.items[last.num])
     /\ last.filename # <<>>
     /\ last.filename # pre.items[last.num]
     /\ exists(pre.fs, last.filename))
    => /\ last.result.kind = "Ok"
       /\ last.tmp_name \notin DOMAIN pre.fs
       /\ FirstCall = [op |-> "rename", from |-> last.filename, to |-> last.tmp_name]
       /\ LastCall = [op |-> "rename", from |-> pre.items[last.num], to |-> last.filename]
       /\ \A k \in DOMAIN pre.items \ {last.num} :
             pre.items[k] = last.filename => k \in DOMAIN items /\ items[k] = last.tmp_name
       /\ pre.items[last.num] \notin DOMAIN fs
       /\ last.filename \in DOMAIN fs
       /\ fs[last.filename] = pre.fs[pre.items[last.num]]
       /\ last.tmp_name \in DOMAIN fs
       /\ fs[last.tmp_name] = pre.fs[last.filename]
       /\ last.num \notin DOMAIN items
       /\ last.num \in DOMAIN dones
       /\ dones[last.num] = last.filename

\* C5 as claimed: an edit with a non-empty target for a number that is
\* resolved and whose resolved path exists is carried out as a copy of that
\* path to the target and never as a rename of it; afterwards the source
\* path and the target both exist, and the number is resolved to the target.
C5_CopyIntent ==
    (/\ Called
     /\ last.num \in DOMAIN pre.dones
     /\ last.filename # <<>>
     /\ exists(pre.fs, pre.dones[last.num]))
    => /\ last.result.kind = "Ok"
       /\ LastCall = [op |-> "copy", from |-> pre.dones[last.num], to |-> last.filename]
       /\ \A i \in 1..Len(last.calls) :
             ~(last.calls[i].op = "rename" /\ last.calls[i].from = pre.dones[last.num])
       /\ pre.dones[last.num] \in DOMAIN fs
       /\ last.filename \in DOMAIN fs
       /\ dones[last.num] = last.filename

\* The call renamed its source to its target
RenamedSource ==
    /\ Called
    /\ last.result.kind = "Ok"
    /\ last.calls # <<>>
    /\ LastCall = [op |-> "rename", from |-> last.src, to |-> last.filename]

\* C6: when an edit renames its source path s and the target t is a
\* directory afterwards, every pending entry that remains and whose path
\* (as the displacement step left it) has s as a prefix has that prefix
\* replaced by t, every other remaining pending entry keeps its path, the
\* number is removed from the pending map and number -> t is resolved.
C6_DirectoryCascade ==
    (RenamedSource /\ is_dir(fs, last.filename))
    => /\ last.num \notin DOMAIN items
       /\ last.num \in DOMAIN dones
       /\ dones[last.num] = last.filename
       /\ DOMAIN items = DOMAIN last.items_mid \ {last.num}
       /\ \A k \in DOMAIN items :
             items[k] = IF HasPrefix(last.items_mid[k], last.src)
                        THEN last.filename \o Drop(last.items_mid[k], Len(last.src))
                        ELSE last.items_mid[k]

\* C6 happens: a directory was renamed and a pending path underneath it
\* followed it
C6_Witness ==
    /\ RenamedSource
    /\ is_dir(fs, last.filename)
    /\ \E k \in DOMAIN items :
          /\ IsUnder(pre.items[k], last.src)
          /\ items[k] = last.filename \o Drop(pre.items[k], Len(last.src))
          /\ items[k] \in DOMAIN fs

\* C7 as claimed: for a pending number whose pending path does not exist, an
\* edit with a non-empty target other than that path fails with NotFound
\* naming the path, issues no call, removes the number from the pending map
\* and leaves the resolved map unchanged.
C7_Original ==
    (/\ Called
     /\ last.num \in DOMAIN pre.items
     /\ ~exists(pre.fs, pre.items[last.num])
     /\ last.filename # <<>>
     /\ last.filename # pre.items[last.num])
    => /\ last.result = [kind |-> "NotFound", path |-> pre.items[last.num]]
       /\ last.calls = <<>>
       /\ last.num \notin DOMAIN items
       /\ SameExcept(pre.items, items, last.num)
       /\ dones = pre.dones
       /\ fs = pre.fs

\* stat of p fails with ENOENT: nothing is at p and no regular file is among
\* its ancestors
ReportedMissing(f, p) ==
    /\ p \notin DOMAIN f
    /\ \A a \in Ancestors(p) : a \in DOMAIN f => f[a].kind = "dir"

\* C7 as amended: for a pending number whose pending path the existence
\* check reports missing (nothing is at the path and none of its ancestors
\* is a regular file), an edit with a non-empty target other than that path
\* fails with NotFound naming the path, issues no call, removes the number
\* from the pending map and leaves every other pending entry, the resolved
\* map and the tree unchanged. (With a regular file among the ancestors the
\* check itself fails, and the call returns that error with the number
\* still pending.)
C7_SourceNotFound ==
    (/\ Called
     /\ last.num \in DOMAIN pre.items
     /\ ReportedMissing(pre.fs, pre.items[last.num])
     /\ last.filename # <<>>
     /\ last.filename # pre.items[last.num])
    => /\ last.result = [kind |-> "NotFound", path |-> pre.items[last.num]]
       /\ last.calls = <<>>
       /\ last.num \notin DOMAIN items
       /\ SameExcept(pre.items, items, last.num)
       /\ dones = pre.dones
       /\ fs = pre.fs

\* C7 happens: the pending path m is missing, the target is another name
C7_Witness ==
    /\ Called
    /\ last.num \in DOMAIN pre.items
    /\ pre.items[last.num] = PathM
    /\ PathM \notin DOMAIN pre.fs
    /\ last.filename = PathB
    /\ last.result.kind = "NotFound"

\* The last call failed with "unknown item number" for its number and
\* issued no call
FailedUnknown ==
    /\ last.result = [kind |-> "unknown item number", num |-> last.num]
    /\ last.calls = <<>>

\* C8 as claimed: once an edit for a number has failed with NotFound, be the
\* number pending or resolved at that time, every later edit for that number
\* fails with "unknown item number" and issues no call.
C8_Original ==
    (Called /\ last.num \in pre.not_found.pending \cup pre.not_found.resolved)
    => FailedUnknown

\* C8 as amended: once an edit for a number that was pending has failed with
\* NotFound, every later edit for that number fails with "unknown item
\* number" and issues no call. (A number that was resolved when its source
\* was found missing stays in the resolved map, and a later edit for it
\* looks for the source again.)
C8_EvictedStaysUnknown ==
    (Called /\ last.num \in pre.not_found.pending) => FailedUnknown

\* C8 happens: a later edit, with a target, for a number that failed with
\* NotFound while pending
C8_Witness ==
    /\ Called
    /\ last.num \in pre.not_found.pending
    /\ last.filename = PathB
    /\ pre.items # <<>>

\* The last call failed in a rename or copy it issued
FailedInCall == Called /\ last.result.kind \in {"FailRename", "FailCopy"}

\* The last call moved what was at its target out of the way, and went on
DisplacedTarget ==
    /\ Len(last.calls) > 1
    /\ FirstCall = [op |-> "rename", from |-> last.filename, to |-> last.tmp_name]

\* The pending map as it was just before the call that failed: as at entry,
\* with the paths equal to the target rewritten when what was at the target
\* had been moved out of the way
ItemsBeforeFailingStep ==
    IF DisplacedTarget THEN update_items(pre.items, last.filename, last.tmp_name)
    ELSE pre.items

\* C11: when the rename or copy that apply_changes issues for an edit (n, t)
\* fails, the pending and resolved maps are as they were before the failing
\* step: n is not added to or updated in the resolved map and is not removed
\* from the pending map, and no resolved entry of any number is changed.
C11_FailedCallKeepsMaps ==
    FailedInCall
    => /\ items = ItemsBeforeFailingStep
       /\ dones = pre.dones
       /\ last.num \in DOMAIN pre.items => last.num \in DOMAIN items
       /\ last.result.from = LastCall.from /\ last.result.to = LastCall.to

\* C11 happens: the target, the path of another pending number, is moved
\* out of the way and that number's path rewritten, and the rename of the
\* source then fails
C11_Witness ==
    /\ FailedInCall
    /\ DisplacedTarget
    /\ LastCall = [op |-> "rename", from |-> last.src, to |-> last.filename]
    /\ last.num \in DOMAIN items
    /\ items # pre.items

\* The numbers the last call removed from the pending map
LeftPending == DOMAIN pre.items \ DOMAIN items

\* No number is pending after the last call that was not pending before it
NoneReenters == DOMAIN items \subseteq DOMAIN pre.items

\* C13 as claimed: in every step in which a number is removed from the
\* pending map it is the number of the edit and is recorded in the resolved
\* map in that same step, and a number that has left the pending map never
\* re-enters it.
C13_Original ==
    Called
    => /\ \A k \in LeftPending : k = last.num /\ k \in DOMAIN dones
       /\ NoneReenters

\* C13 as amended: in every step in which a number is removed from the
\* pending map it is the number of the edit, and either the edit was applied
\* and the number is recorded in the resolved map with the edit's target in
\* that same step, or the call failed with NotFound for the number's pending
\* path and the number is recorded nowhere; a number that has left the
\* pending map never re-enters it.
C13_LeavesPendingOnce ==
    Called
    => /\ \A k \in LeftPending :
             /\ k = last.num
             /\ \/ /\ last.result.kind = "Ok"
                   /\ k \in DOMAIN dones
                   /\ dones[k] = last.filename
                \/ /\ last.result = [kind |-> "NotFound", path |-> pre.items[k]]
                   /\ k \notin DOMAIN dones
       /\ NoneReenters

\* C13 happens: a rename was issued for a pending number, which left the
\* pending map while another number stayed in it
C13_Witness ==
    /\ RenamedSource
    /\ last.num \in LeftPending
    /\ items # <<>>
    /\ last.num \in DOMAIN dones

\* C14: the resolved set only grows: whatever the call, successful or
\* failing, every number that was in the resolved map before it is in the
\* resolved map after it.
C14_ResolvedOnlyGrows ==
    Called => DOMAIN pre.dones \subseteq DOMAIN dones

\* C14 happens: a second number is resolved, and the one resolved before it
\* is still in the resolved map
C14_Witness ==
    /\ Called
    /\ pre.dones # <<>>
    /\ last.result.kind = "Ok"
    /\ last.num \notin DOMAIN pre.dones
    /\ Cardinality(DOMAIN dones) = 2

\* What one call of apply_changes on the tree leaves of tree f
TreeAfterCall(f, c) ==
    IF c.op = "rename" THEN fs_rename(f, c.from, c.to).fs
    ELSE IF c.op = "copy" THEN fs_copy(f, c.from, c.to).fs
    ELSE create_dir_all(f, c.to).fs

RECURSIVE TreeAfterCalls(_, _)
TreeAfterCalls(f, calls) ==
    IF calls = <<>> THEN f
    ELSE TreeAfterCalls(TreeAfterCall(f, Head(calls)), Tail(calls))

\* The last call of apply_changes issued its main rename or copy, of the
\* source to the target
MainIssued ==
    /\ Called
    /\ last.calls # <<>>
    /\ LastCall.op = (IF last.is_copy THEN "copy" ELSE "rename")
    /\ LastCall.from = last.src
    /\ LastCall.to = last.filename

\* The tree as it was when the main rename or copy was issued
TreeBeforeMain == TreeAfterCalls(pre.fs, SubSeq(last.calls, 1, Len(last.calls) - 1))

\* The last call of apply_changes failed in making the target's directory
CreationFailed ==
    /\ Called
    /\ last.result.kind = "io::Error"
    /\ last.calls # <<>>
    /\ LastCall.op = "create_dir_all"

\* The edit is a move of a pending number's existing source to a target
\* whose directory does not exist yet
MoveUnderMissingDirectory ==
    /\ Called
    /\ last.num \in DOMAIN pre.items
    /\ exists(pre.fs, pre.items[last.num])
    /\ last.filename # <<>>
    /\ last.filename # pre.items[last.num]
    /\ Parent(last.filename) # <<>>
    /\ ~exists(pre.fs, Parent(last.filename))

\* The number of the last call is resolved to its target
ResolvedToTarget ==
    /\ last.result.kind = "Ok"
    /\ last.num \notin DOMAIN items
    /\ last.num \in DOMAIN dones
    /\ dones[last.num] = last.filename

\* No rename or copy was issued and the number is not marked resolved
NothingIssuedNorResolved ==
    /\ \A i \in 1..Len(last.calls) : last.calls[i].op = "create_dir_all"
    /\ dones = pre.dones
    /\ items = pre.items

\* C18 as claimed: when the main rename or copy of an edit (n, t) is issued,
\* every ancestor of t is a directory; a move of an existing source to a
\* target under directories that do not exist yet succeeds and resolves n to
\* t, unless the directories cannot be made; and when they cannot, no rename
\* or copy is issued and n is not marked resolved.
C18_Original ==
    /\ MainIssued => \A a \in Ancestors(last.filename) : is_dir(TreeBeforeMain, a)
    /\ MoveUnderMissingDirectory => (CreationFailed \/ ResolvedToTarget)
    /\ CreationFailed => NothingIssuedNorResolved

\* C18 as amended: when the main rename or copy of an edit (n, t) is issued,
\* the parent path of t exists, and every ancestor of t is a directory
\* unless that parent is a regular file, in which case nothing was made and
\* the rename or copy fails; a move of an existing source to a target whose
\* parent is missing, with no regular file among the target's ancestors and
\* the target not underneath the source, makes the missing directories,
\* succeeds, puts the source's content at t and resolves n to t; and when
\* the directories cannot be made, no rename or copy is issued, n is not
\* marked resolved and the maps and the tree are as they were.
C18_ParentMade ==
    /\ MainIssued
       => \/ \A a \in Ancestors(last.filename) : is_dir(TreeBeforeMain, a)
          \/ /\ exists(TreeBeforeMain, Parent(last.filename))
             /\ TreeBeforeMain[Parent(last.filename)].kind = "file"
             /\ \A i \in 1..Len(last.calls) : last.calls[i].op # "create_dir_all"
             /\ FailedInCall
    /\ (/\ MoveUnderMissingDirectory
        /\ ReportedMissing(pre.fs, Parent(last.filename))
        /\ ~IsUnder(last.filename, pre.items[last.num]))
       => /\ ResolvedToTarget
          /\ last.calls = <<[op |-> "create_dir_all", from |-> <<>>,
                             to |-> Parent(last.filename)],
                            [op |-> "rename", from |-> pre.items[last.num],
                             to |-> last.filename]>>
          /\ \A a \in Ancestors(last.filename) : is_dir(fs, a)
          /\ last.filename \in DOMAIN fs
          /\ fs[last.filename] = pre.fs[pre.items[last.num]]
    /\ CreationFailed => NothingIssuedNorResolved /\ StateUnchanged

\* C18 happens: a source is moved to d/x/y, and d/x, which was not there,
\* is a directory afterwards
C18_Witness ==
    /\ MoveUnderMissingDirectory
    /\ RenamedSource
    /\ last.filename = PathDXY
    /\ Parent(PathDXY) \notin DOMAIN pre.fs
    /\ is_dir(fs, Parent(PathDXY))

\* The content of every file the run began with is somewhere in the tree
AllContentKept ==
    \A q \in DOMAIN InitTree :
        InitTree[q].kind = "file" => \E p \in DOMAIN fs : fs[p] = InitTree[q]

\* C19: no overwrite: whenever apply_changes issues its main rename or copy
\* of the source to t, nothing is at t at that moment (what was there has
\* been moved to a temporary name that was unused), so that no sequence of
\* edits destroys the content of a file that was there before the run.
C19_NoOverwrite ==
    /\ MainIssued => last.filename \notin DOMAIN TreeBeforeMain
    /\ (Called /\ last.calls # <<>> /\ FirstCall.op = "rename"
               /\ FirstCall.from = last.filename /\ FirstCall.to = last.tmp_name)
       => last.tmp_name \notin DOMAIN pre.fs
    /\ AllContentKept

\* C19 happens: the target held a file, which is at the temporary name after
\* the source has been renamed to the target
C19_Witness ==
    /\ MainIssued
    /\ last.result.kind = "Ok"
    /\ DisplacedTarget
    /\ last.filename \in DOMAIN pre.fs
    /\ pre.fs[last.filename].kind = "file"
    /\ last.tmp_name \in DOMAIN fs
    /\ fs[last.tmp_name] = pre.fs[last.filename]
    /\ fs[last.filename] = pre.fs[last.src]

\* C20 as claimed: after any call for number n, successful or failing, every
\* other number still pending whose path was that of an existing file or
\* directory before the call has a path that is that of the same file or
\* directory afterwards, also when it lay underneath a directory that was
\* moved to a temporary name.
C20_PendingKeepTracking ==
    Called
    => \A k \in DOMAIN items \ {last.num} :
          (k \in DOMAIN pre.items /\ pre.items[k] \in DOMAIN pre.fs)
          => /\ items[k] \in DOMAIN fs
             /\ fs[items[k]] = pre.fs[pre.items[k]]

\* C21 as claimed: resolved paths stay truthful: in every reachable state,
\* the resolved path of every resolved number is where the content is that
\* the last applied edit of that number left there; an edit of another
\* number onto the same target does not change what it denotes.
C21_ResolvedTruthful ==
    \A n \in DOMAIN dones :
        n \in DOMAIN placed
        => /\ dones[n] \in DOMAIN fs
           /\ fs[dones[n]] = placed[n]

\* C22 as claimed: when a directory at source path s is renamed to t, the
\* cascade changes only the pending entries that are s or lie underneath s
\* (s followed by a separator): every pending entry that merely has s as a
\* prefix of its string without being inside it, and every resolved entry
\* of another number, is left unchanged.
C22_CascadeFrame ==
    (RenamedSource /\ is_dir(fs, last.filename))
    => /\ \A k \in DOMAIN items :
             (last.items_mid[k] # last.src /\ ~IsUnder(last.items_mid[k], last.src))
             => items[k] = last.items_mid[k]
       /\ SameExcept(pre.dones, dones, last.num)

\* C23: pending and resolved are disjoint: in every state reachable from
\* Operator::new by apply_changes calls, no number is a key of both the
\* pending and the resolved map, and every key of either is a number of the
\* initial listing.
C23_DisjointMaps ==
    /\ DOMAIN items \cap DOMAIN dones = {}
    /\ DOMAIN items \cup DOMAIN dones \subseteq DOMAIN listing.items

\* C23 happens: one number has been moved and is resolved to its new path,
\* another is still pending, and a call for a number that was never listed
\* has just failed
C23_Witness ==
    /\ Called
    /\ last.num \notin DOMAIN listing.items
    /\ last.result.kind = "unknown item number"
    /\ items # <<>>
    /\ dones # <<>>
    /\ \E n \in DOMAIN dones : n \in DOMAIN placed /\ dones[n] # listing.items[n]

----------------------------------------------------------------------------
(* Properties of main's loop *)

\* main has panicked with lines of the file left unread or on its last line
Aborted == pc = "panicked"

\* C12 as claimed: no failure of apply_changes aborts the run; only a line
\* that does not parse does. Whenever main has aborted, the line it read
\* last is one parse_line failed on.
C12_OnlyParseFailureAborts ==
    Aborted => parsed[Len(parsed)].kind \in {"err", "panic"}

\* A name with a tilde in it is in the tree
TildeRemains == \E q \in DOMAIN fs : \E j \in 1..Len(q) : q[j] = "~"

\* C17: for listed plain files with distinct paths and edits, applied in
\* listing order, that give every item the path of another item all around
\* one cycle (a swap of two, a cycle of three or more), no edit fails, and
\* after all edits every item's content is at its requested target, every
\* item is resolved to its target, the pending map is empty and no name with
\* a tilde is left in the tree.
C17_CycleResolved ==
    /\ pc # "panicked"
    /\ reported = <<>>
    /\ pc = "returned"
       => /\ items = <<>>
          /\ DOMAIN dones = 1..Len(sources)
          /\ \A i \in 1..Len(sources) :
                /\ parsed[i].num = i
                /\ dones[i] = parsed[i].filename
                /\ dones[i] \in DOMAIN fs
                /\ fs[dones[i]] = CycleTree[sources[i]]
          /\ ~TildeRemains

\* C17 happens: a cycle of three has been applied, the last edit taking its
\* source from a temporary name
C17_Witness ==
    /\ pc = "returned"
    /\ Len(sources) = 3
    /\ nedits = 3
    /\ \E j \in 1..Len(last.src) : last.src[j] = "~"

----------------------------------------------------------------------------
(* Properties of the listing and of get_unique_tmp_name *)

\* C9 as claimed: every line write_with_ids wrote, handed unmodified to
\* parse_line, yields the identifier and the path of the map write_with_ids
\* returned: the line's own number, and the original path character for
\* character.
C9_RoundTrip ==
    \A i \in 1..Len(parsed) :
        /\ parsed[i].kind = "line"
        /\ parsed[i].num = i
        /\ parsed[i].num \in DOMAIN listing.items
        /\ parsed[i].filename = listing.items[parsed[i].num]
        /\ parsed[i].filename = sources[i]

\* The line parsed[i] came from, its leading whitespace trimmed
TrimmedLine(i) == trim_start(listing.lines[i])

\* The result is the failure of a number that does not fit
FailedOnOverflow(result, digits) ==
    /\ result = [kind |-> "err", msg |-> "number too large to fit in target type"]
    /\ Overflows(digits)

\* C15 as claimed: a line whose trimmed text starts with k > 0 digits (whose
\* value fits) yields an edit; when the character after the digits is no
\* numeric character of any kind, or there is none, the edit's number is the
\* value of the k digits, and its target is everything after one separating
\* space if the character right after the digits is a space, else everything
\* from the first non-digit character on (empty when the line is all digits).
C15_ParsedEdit ==
    \A i \in 1..Len(parsed) :
        LET t == TrimmedLine(i)
            digits == DigitPrefix(t)
            rest == SubSeq(t, Len(digits) + 1, Len(t))
        IN  (digits # <<>> /\ ~Overflows(digits))
            => /\ parsed[i].kind = "line"
               /\ (rest = <<>> \/ ~IsNumeric(rest[1]))
                  => /\ parsed[i].num = parse_usize(digits)
                     /\ parsed[i].filename =
                           IF rest # <<>> /\ rest[1] = " " THEN Tail(rest) ELSE rest

\* C16 as claimed: parse_line yields nothing when the line is empty or only
\* whitespace, the failure "no number found" when the first character after
\* the whitespace is not a digit, and otherwise an edit, or the failure of a
\* number that does not fit. (For a numeric first character that is no ASCII
\* digit, either of the last two is accepted here.)
C16_ThreeOutcomes ==
    \A i \in 1..Len(parsed) :
        LET t == TrimmedLine(i)
            no_number == parsed[i] = [kind |-> "err", msg |-> "no number found"]
            edit == \/ parsed[i].kind = "line"
                    \/ FailedOnOverflow(parsed[i], DigitPrefix(t))
        IN  IF t = <<>> THEN parsed[i].kind = "none"
            ELSE IF ~IsNumeric(t[1]) THEN no_number
            ELSE IF IsDigit(t[1]) THEN edit
            ELSE no_number \/ edit

\* The candidate names of C10: name~, then name~1, name~2, name~3, ...
TmpCandidate(name, k) ==
    IF k = 0 THEN name \o <<"~">> ELSE name \o <<"~">> \o to_string(k)

\* C10 as claimed: the name get_unique_tmp_name returns does not exist and
\* is the first unused one of name~, name~1, name~2, name~3, ...
C10_FirstUnusedCandidate ==
    last.tmp_name # <<>>
    => /\ last.tmp_name \notin DOMAIN fs
       /\ \E k \in 0..Cardinality(DOMAIN fs) :
             /\ last.tmp_name = TmpCandidate(last.filename, k)
             /\ \A j \in 0..(k - 1) : TmpCandidate(last.filename, j) \in DOMAIN fs

====
